---- MODULE Spec2Model ----
(***************************************************************************)
(* Laku.ai sales backend (src/app.py): the sales table, the summary        *)
(* computed from it, the HTTP routes over it and the /ai command           *)
(* interpreter that dispatches a language model's JSON command.            *)
(*                                                                         *)
(* Python values are modelled with their dynamic type: a JSON value is a   *)
(* record [k, b, n, s] whose k names the type.  A Python str is a sequence *)
(* of one-character strings, so that str.lower() and the comparison with   *)
(* "all" are computed and not assumed.                                     *)
(***************************************************************************)
EXTENDS Integers, Sequences, FiniteSets

(***************************************************************************)
(* Bounds of the model.                                                    *)
(***************************************************************************)
\* rows ever inserted in a behaviour of Spec / SpecRace
MaxId == 2
\* rows ever inserted in a behaviour of SpecSummary
MaxRows == 6
\* concurrent POST /api/sales requests
NumProcs == 2

(***************************************************************************)
(* Program constants.                                                      *)
(***************************************************************************)
HoursPerDay == 24
RecentLimit == 5

(***************************************************************************)
(* Python / JSON values.                                                   *)
(***************************************************************************)
Absent == [k |-> "absent", b |-> FALSE, n |-> 0, s |-> <<>>]
Null == [k |-> "null", b |-> FALSE, n |-> 0, s |-> <<>>]
Bool(x) == [k |-> "bool", b |-> x, n |-> 0, s |-> <<>>]
Num(x) == [k |-> "num", b |-> FALSE, n |-> x, s |-> <<>>]
Str(x) == [k |-> "str", b |-> FALSE, n |-> 0, s |-> x]

S_all == <<"a", "l", "l">>
S_ALL == <<"A", "L", "L">>
S_eggs == <<"e", "g", "g", "s">>
S_milk == <<"m", "i", "l", "k">>
S_hi == <<"h", "i">>

\* dict.get(key): a missing key and a JSON null both give None
IsNone(v) == v.k \in {"absent", "null"}

\* Python truthiness (`if x`, `not x`)
Truthy(v) ==
  CASE v.k = "bool" -> v.b
    [] v.k = "num" -> v.n # 0
    [] v.k = "str" -> v.s # <<>>
    [] OTHER -> FALSE

\* x == "<literal>": a str equal to the literal, character by character
PyEqStr(v, lit) == v.k = "str" /\ v.s = lit

LowerChar(c) ==
  CASE c = "A" -> "a"
    [] c = "L" -> "l"
    [] OTHER -> c

\* str.lower()
lower(s) == [i \in DOMAIN s |-> LowerChar(s[i])]

DigitOf(c) ==
  CASE c = "0" -> 0
    [] c = "1" -> 1
    [] c = "2" -> 2
    [] c = "3" -> 3
    [] c = "4" -> 4
    [] c = "5" -> 5
    [] c = "6" -> 6
    [] c = "7" -> 7
    [] c = "8" -> 8
    [] OTHER -> 9

RECURSIVE DecimalOf(_)
\* the integer a string of digits denotes (the id parameter as the
\* datastore reads it in `WHERE id = %s`)
DecimalOf(s) ==
  IF s = <<>> THEN 0
  ELSE 10 * DecimalOf(SubSeq(s, 1, Len(s) - 1)) + DigitOf(s[Len(s)])

RECURSIVE DigitsOf(_)
\* str(n) for n >= 0
DigitsOf(n) ==
  LET d == CASE n % 10 = 0 -> "0" [] n % 10 = 1 -> "1" [] n % 10 = 2 -> "2"
             [] n % 10 = 3 -> "3" [] n % 10 = 4 -> "4" [] n % 10 = 5 -> "5"
             [] n % 10 = 6 -> "6" [] n % 10 = 7 -> "7" [] n % 10 = 8 -> "8"
             [] OTHER -> "9"
  IN IF n < 10 THEN <<d>> ELSE DigitsOf(n \div 10) \o <<d>>

\* a piece of response text: which message it is and the value formatted in
Text(kind, arg) == [kind |-> kind, arg |-> arg]

(***************************************************************************)
(* State.                                                                  *)
(***************************************************************************)
VARIABLES
  GEMINI_API_KEY,  \* TRUE iff the credential was configured at start-up
  sales,           \* the rows of table `sales`
  nextId,          \* the next value of the id sequence
  now,             \* the datastore's clock: minutes since midnight of day 0
  pc,              \* per POST /api/sales request: where it stands
  sale,            \* per POST /api/sales request: the row it inserted
  interfered,      \* per POST /api/sales request: another request changed
                   \* the table since its insert
  last             \* the interaction that just ended: its input, the store
                   \* operations it ran and the response it returned

vars == <<GEMINI_API_KEY, sales, nextId, now, pc, sale, interfered, last>>

Procs == 1 .. NumProcs

\* sample values of a request's fields
ItemNames == {S_eggs, S_milk}
Quantities == {1, 2}
Prices == {3}
\* the instants at which requests arrive: 00:45, and 01:00 a day later
Times == {45, 1500}

(***************************************************************************)
(* Ledger store.                                                           *)
(***************************************************************************)
NoRow == [id |-> 0, item_name |-> <<>>, quantity |-> 0, price |-> 0, created_at |-> 0]

\* get_db_connection raising (the datastore cannot be reached)
ConnectFailed == [exc |-> "OperationalError"]

RECURSIVE OrderByIdDesc(_)
OrderByIdDesc(rows) ==
  IF rows = {} THEN <<>>
  ELSE LET top == CHOOSE r \in rows : \A x \in rows : x.id <= r.id
       IN <<top>> \o OrderByIdDesc(rows \ {top})

\* SELECT * FROM sales ORDER BY id DESC
fetch_sales(rows) == OrderByIdDesc(rows)

\* the INSERT rolled back when the connection closes: the row is returned
\* and the table does not hold it
insert_sale_uncommitted(rows, id, t, item_name, quantity, price) ==
  [rows |-> rows,
   row |-> [id |-> id, item_name |-> item_name, quantity |-> quantity,
            price |-> price, created_at |-> t]]

\* INSERT INTO sales (item_name, quantity, price) ... RETURNING *: the row
\* gets the next id and the clock's time; the table with it, and the row
insert_sale(rows, id, t, item_name, quantity, price) ==
  LET row == [id |-> id, item_name |-> item_name, quantity |-> quantity,
              price |-> price, created_at |-> t]
  IN [rows |-> rows \cup {row}, row |-> row]

\* the second definition of delete_sale, the one in force: what it raises,
\* the table after it, the branch it took and the dict it returns
delete_sale(rows, sale_id) ==
  IF sale_id.k # "str"
  THEN [exc |-> "AttributeError", rows |-> rows, branch |-> "none",
        result |-> [raised |-> "AttributeError"]]
  ELSE IF lower(sale_id.s) = S_all
  THEN [exc |-> "none", rows |-> {}, branch |-> "all",
        result |-> [message |-> Text("All sales have been deleted", Absent),
                    deleted_count |-> Cardinality(rows)]]
  ELSE LET hit == {r \in rows : r.id = DecimalOf(sale_id.s)}
       IN IF hit # {}
          THEN [exc |-> "none", rows |-> rows \ hit, branch |-> "one",
                result |-> [message |-> Text("Sale # has been deleted", sale_id),
                            deleted_sale |-> CHOOSE r \in hit : TRUE]]
          ELSE [exc |-> "none", rows |-> rows, branch |-> "one",
                result |-> [error |-> Text("No sale found with ID", sale_id)]]

(***************************************************************************)
(* Analytics: compute_summary.                                             *)
(***************************************************************************)
\* datetime.hour and datetime.minute of a created_at (minutes since the
\* midnight the clock started at)
HourOf(t) == (t \div 60) % HoursPerDay
MinuteOf(t) == t % 60

Pad2(n) == IF n < 10 THEN <<"0">> \o DigitsOf(n) ELSE DigitsOf(n)

\* strftime('%H:%M')
strftime_HM(t) == Pad2(HourOf(t)) \o <<":">> \o Pad2(MinuteOf(t))

RECURSIVE SumRevenue(_, _)
SumRevenue(s, n) ==
  IF n = 0 THEN 0 ELSE SumRevenue(s, n - 1) + s[n].quantity * s[n].price

RECURSIVE SumQuantity(_, _)
SumQuantity(s, n) ==
  IF n = 0 THEN 0 ELSE SumQuantity(s, n - 1) + s[n].quantity

\* items_sold[name] = items_sold.get(name, 0) + quantity, on a dict that
\* keeps its keys in insertion order
AddItem(items, name, quantity) ==
  IF \E i \in DOMAIN items : items[i].item_name = name
  THEN [i \in DOMAIN items |->
          IF items[i].item_name = name
          THEN [items[i] EXCEPT !.quantity = @ + quantity]
          ELSE items[i]]
  ELSE Append(items, [item_name |-> name, quantity |-> quantity])

RECURSIVE ItemsSold(_, _)
ItemsSold(s, n) ==
  IF n = 0 THEN <<>>
  ELSE AddItem(ItemsSold(s, n - 1), s[n].item_name, s[n].quantity)

RECURSIVE MaxByQuantityLast(_, _)
\* the last of the largest
MaxByQuantityLast(items, n) ==
  IF n = 1 THEN items[1]
  ELSE LET m == MaxByQuantityLast(items, n - 1)
       IN IF items[n].quantity >= m.quantity THEN items[n] ELSE m

RECURSIVE MaxByQuantity(_, _)
\* max(items_sold.items(), key=lambda x: x[1]): the first of the largest
MaxByQuantity(items, n) ==
  IF n = 1 THEN items[1]
  ELSE LET m == MaxByQuantity(items, n - 1)
       IN IF items[n].quantity > m.quantity THEN items[n] ELSE m

RECURSIVE HourlySales(_, _)
HourlySales(s, n) ==
  IF n = 0 THEN [hour \in 0 .. HoursPerDay - 1 |-> 0]
  ELSE [HourlySales(s, n - 1) EXCEPT ![HourOf(s[n].created_at)] = @ + s[n].quantity]

\* the sort without reverse=True
InsertOldestFirst(sorted, x) ==
  LET keep == {i \in DOMAIN sorted : sorted[i].created_at <= x.created_at}
      k == Cardinality(keep)
  IN SubSeq(sorted, 1, k) \o <<x>> \o SubSeq(sorted, k + 1, Len(sorted))

\* x goes after the entries at least as new as it: the sort is stable
InsertNewestFirst(sorted, x) ==
  LET keep == {i \in DOMAIN sorted : sorted[i].created_at >= x.created_at}
      k == Cardinality(keep)
  IN SubSeq(sorted, 1, k) \o <<x>> \o SubSeq(sorted, k + 1, Len(sorted))

RECURSIVE SortedNewestFirst(_, _)
\* sorted(sales, key=lambda x: x['created_at'], reverse=True)
SortedNewestFirst(s, n) ==
  IF n = 0 THEN <<>>
  ELSE InsertNewestFirst(SortedNewestFirst(s, n - 1), s[n])

\* sorted(...)[:5]
recent_sales(s) ==
  LET sorted == SortedNewestFirst(s, Len(s))
  IN SubSeq(sorted, 1, IF Len(sorted) < RecentLimit THEN Len(sorted) ELSE RecentLimit)

RecentEntry(r) ==
  [item_name |-> r.item_name, quantity |-> r.quantity, price |-> r.price,
   total |-> r.quantity * r.price, time |-> strftime_HM(r.created_at)]

compute_summary(s) ==
  IF s = <<>>
  THEN [total_revenue |-> 0,
        total_sales_count |-> 0,
        avg_order_value |-> [num |-> 0, den |-> 1],
        best_selling_item |-> Null,
        best_selling_quantity |-> 0,
        items_sold |-> <<>>,
        hourly_sales |-> [hour \in 0 .. HoursPerDay - 1 |-> 0],
        recent_sales |-> <<>>]
  ELSE LET items_sold == ItemsSold(s, Len(s))
           best == MaxByQuantity(items_sold, Len(items_sold))
           recent == recent_sales(s)
       IN [total_revenue |-> SumRevenue(s, Len(s)),
           total_sales_count |-> SumQuantity(s, Len(s)),
           avg_order_value |-> [num |-> SumRevenue(s, Len(s)), den |-> Len(s)],
           best_selling_item |-> Str(best.item_name),
           best_selling_quantity |-> best.quantity,
           items_sold |-> items_sold,
           hourly_sales |-> HourlySales(s, Len(s)),
           recent_sales |-> [i \in DOMAIN recent |-> RecentEntry(recent[i])]]

(***************************************************************************)
(* What an interaction leaves behind: the handler, its input, the SQL      *)
(* statements it ran, the exception the store raised, the rows it added    *)
(* and removed, and the HTTP status and JSON body it answered with.        *)
(***************************************************************************)
NoCmd ==
  [action |-> "absent", item_name |-> Absent, quantity |-> Absent,
   price |-> Absent, sale_id |-> Absent, confirmed |-> Absent,
   message |-> Absent, amount |-> Absent]

NoInput ==
  [proc |-> 0, user_text |-> Absent, reply |-> "none", cmd |-> NoCmd,
   sale_id |-> Absent, interfered |-> FALSE]

Outcome(handler, input, model_called, ops, exc, inserted, removed, status, body) ==
  [handler |-> handler, input |-> input, model_called |-> model_called,
   ops |-> ops, exc |-> exc, inserted |-> inserted, removed |-> removed,
   status |-> status, body |-> body]

NoBody == [none |-> TRUE]

Nothing == Outcome("none", NoInput, FALSE, <<>>, "none", {}, {}, 0, NoBody)

\* the observation of one interaction is retired before the next request is
\* observed; the program's own state is untouched
Quiet == last = Nothing

Forget ==
  /\ last # Nothing
  /\ last' = Nothing
  /\ UNCHANGED <<GEMINI_API_KEY, sales, nextId, now, pc, sale, interfered>>

\* every other POST /api/sales request that has inserted and not yet fetched
\* sees the table change under it
Disturb(p, changed) ==
  [q \in Procs |-> IF q # p /\ pc[q] = "fetch" /\ changed THEN TRUE ELSE interfered[q]]

(***************************************************************************)
(* Routes over the ledger.                                                 *)
(***************************************************************************)
\* time passes
Tick ==
  /\ \E t \in Times : t > now /\ now' = t
  /\ UNCHANGED <<GEMINI_API_KEY, sales, nextId, pc, sale, interfered, last>>

\* what delete_sale_route answers for what delete_sale did
delete_sale_response(d) ==
  IF d.exc # "none"
  THEN [status |-> 500, body |-> [status |-> "error", message |-> Text("str(e)", Absent)]]
  ELSE IF "error" \in DOMAIN d.result
  THEN [status |-> 404, body |-> [status |-> "error", message |-> d.result.error]]
  ELSE [status |-> 200, body |-> [status |-> "success", message |-> d.result.message]]

\* the identifiers a DELETE /api/sales/<sale_id> path carries
RouteIds == {Str(S_all), Str(S_ALL)} \cup {Str(DigitsOf(i)) : i \in 1 .. MaxId + 1}

\* DELETE /api/sales/<sale_id>
delete_sale_route ==
  \E sale_id \in RouteIds, db_up \in BOOLEAN :
    LET d == IF db_up THEN delete_sale(sales, sale_id)
             ELSE [exc |-> "OperationalError", rows |-> sales, branch |-> "none",
                   result |-> ConnectFailed]
        r == delete_sale_response(d)
    IN /\ Quiet
       /\ sales' = d.rows
       /\ interfered' = Disturb(0, sales' # sales)
       /\ last' = Outcome("delete_sale_route", [NoInput EXCEPT !.sale_id = sale_id],
                          FALSE,
                          CASE d.branch = "all" -> <<"delete_all">>
                            [] d.branch = "one" -> <<"delete_one">>
                            [] OTHER -> <<>>,
                          d.exc, {}, sales \ d.rows, r.status, r.body)
       /\ UNCHANGED <<GEMINI_API_KEY, nextId, now, pc, sale>>

\* GET /api/sales
get_sales ==
  \E db_up \in BOOLEAN :
    /\ Quiet
    /\ last' = IF db_up
               THEN Outcome("get_sales", NoInput, FALSE, <<"fetch">>, "none", {}, {},
                            200, [sales |-> fetch_sales(sales)])
               ELSE Outcome("get_sales", NoInput, FALSE, <<>>, "OperationalError", {}, {},
                            500, [error |-> Text("str(e)", Absent)])
    /\ UNCHANGED <<GEMINI_API_KEY, sales, nextId, now, pc, sale, interfered>>

\* GET /api/analytics
get_analytics ==
  \E db_up \in BOOLEAN :
    /\ Quiet
    /\ last' = IF db_up
               THEN Outcome("get_analytics", NoInput, FALSE, <<"fetch">>, "none", {}, {},
                            200, [success |-> TRUE,
                                  analytics |-> compute_summary(fetch_sales(sales))])
               ELSE Outcome("get_analytics", NoInput, FALSE, <<>>, "OperationalError", {}, {},
                            500, [success |-> FALSE, error |-> Text("str(e)", Absent)])
    /\ UNCHANGED <<GEMINI_API_KEY, sales, nextId, now, pc, sale, interfered>>

\* the JSON bodies of POST /api/sales: the three fields, a text (with what
\* parse_sales_input makes of it: a triple, or nothing), or neither
SaleBodies ==
  {[kind |-> k, item_name |-> i, quantity |-> q, price |-> pr] :
     k \in {"fields", "text"}, i \in ItemNames, q \in Quantities, pr \in Prices}
  \cup {[kind |-> k, item_name |-> <<>>, quantity |-> 0, price |-> 0] :
          k \in {"text", "other"}}

\* POST /api/sales up to and including insert_sale
add_sale_insert(p) ==
  /\ Quiet
  /\ pc[p] = "idle"
  /\ \E data \in SaleBodies, db_up \in BOOLEAN :
       IF data.kind = "other" \/ (data.kind = "text" /\ data.item_name = <<>>)
       THEN /\ last' = Outcome("add_sale", [NoInput EXCEPT !.proc = p], FALSE, <<>>,
                               "none", {}, {}, 400,
                               [error |-> Text(IF data.kind = "other"
                                               THEN "Invalid request format."
                                               ELSE "Cannot parse sale input.", Absent)])
            /\ UNCHANGED <<sales, nextId, pc, sale, interfered>>
       ELSE IF ~db_up
       THEN /\ last' = Outcome("add_sale", [NoInput EXCEPT !.proc = p], FALSE, <<>>,
                               "OperationalError", {}, {}, 500,
                               [error |-> Text("str(e)", Absent)])
            /\ UNCHANGED <<sales, nextId, pc, sale, interfered>>
       ELSE LET ins == insert_sale(sales, nextId, now, data.item_name,
                                   data.quantity, data.price)
            IN /\ nextId <= MaxId
               /\ sales' = ins.rows
               /\ nextId' = nextId + 1
               /\ pc' = [pc EXCEPT ![p] = "fetch"]
               /\ sale' = [sale EXCEPT ![p] = ins.row]
               /\ interfered' = [Disturb(p, TRUE) EXCEPT ![p] = FALSE]
               /\ last' = Outcome("add_sale_insert", [NoInput EXCEPT !.proc = p], FALSE,
                                  <<"insert">>, "none", {ins.row}, {}, 0, NoBody)
  /\ UNCHANGED <<GEMINI_API_KEY, now>>

\* POST /api/sales from fetch_sales on
add_sale_fetch(p) ==
  /\ Quiet
  /\ pc[p] = "fetch"
  /\ \E db_up \in BOOLEAN :
       last' = IF db_up
               THEN Outcome("add_sale",
                            [NoInput EXCEPT !.proc = p, !.interfered = interfered[p]],
                            FALSE, <<"fetch">>, "none", {}, {}, 201,
                            [sale |-> sale[p],
                             summary |-> compute_summary(fetch_sales(sales)),
                             message |-> Text("Sale recorded successfully!", Absent)])
               ELSE Outcome("add_sale",
                            [NoInput EXCEPT !.proc = p, !.interfered = interfered[p]],
                            FALSE, <<>>, "OperationalError", {}, {}, 500,
                            [error |-> Text("str(e)", Absent)])
  /\ pc' = [pc EXCEPT ![p] = "idle"]
  /\ sale' = [sale EXCEPT ![p] = NoRow]
  /\ interfered' = [interfered EXCEPT ![p] = FALSE]
  /\ UNCHANGED <<GEMINI_API_KEY, sales, nextId, now>>

(***************************************************************************)
(* Command interpreter: POST /ai.                                          *)
(***************************************************************************)
\* response_data.get("message", default)
MessageOr(cmd, default) ==
  IF cmd.message.k = "absent" THEN Text(default, Absent)
  ELSE Text("message", cmd.message)

ErrorEnvelope(text) == [ai_response |-> text, action |-> "error"]

ChatEnvelope(text) == [ai_response |-> text, action |-> "chat"]

\* a dispatch branch's effect: the table after it, the SQL it ran, the
\* exception that left it (if any) and the envelope it returned (if none)
Dispatched(rows, ops, exc, body) ==
  [rows |-> rows, ops |-> ops, exc |-> exc, body |-> body]

\* `if item_name and quantity and price`
add_sale_fields_truthy(cmd) ==
  Truthy(cmd.item_name) /\ Truthy(cmd.quantity) /\ Truthy(cmd.price)

\* `if item_name and quantity is not None and price is not None`
add_sale_fields_ok(cmd) ==
  Truthy(cmd.item_name) /\ ~IsNone(cmd.quantity) /\ ~IsNone(cmd.price)

\* `if sale_id == "all" and not response_data.get("confirmed")`
needs_confirmation(cmd) ==
  PyEqStr(cmd.sale_id, S_all) /\ ~Truthy(cmd.confirmed)

\* the branch for action "remove_sale"
remove_sale_branch(cmd, db_up, rows) ==
  IF ~Truthy(cmd.sale_id)
  THEN Dispatched(rows, <<>>, "none",
         ErrorEnvelope(Text("Please specify a sale ID or 'all' to remove sales", Absent)))
  ELSE IF needs_confirmation(cmd)
  THEN Dispatched(rows, <<>>, "none",
         [ai_response |-> Text("Are you sure you want to delete ALL sales?", Absent),
          action |-> "confirm_delete_all"])
  ELSE IF ~db_up
  THEN Dispatched(rows, <<>>, "OperationalError", NoBody)
  ELSE LET d == delete_sale(rows, cmd.sale_id)
       IN IF d.exc # "none"
          THEN Dispatched(rows, <<>>, d.exc, NoBody)
          ELSE IF "error" \in DOMAIN d.result
          THEN Dispatched(d.rows, <<"delete_one">>, "none", ErrorEnvelope(d.result.error))
          ELSE Dispatched(d.rows,
                 IF d.branch = "all" THEN <<"delete_all">> ELSE <<"delete_one">>,
                 "none",
                 [ai_response |-> d.result.message, action |-> "sale_deleted",
                  result |-> d.result])

\* the branch for action "add_sale"
add_sale_branch(cmd, db_up, rows, id, t) ==
  IF add_sale_fields_ok(cmd)
  THEN IF ~db_up
       THEN Dispatched(rows, <<>>, "OperationalError", NoBody)
       ELSE Dispatched(insert_sale(rows, id, t, cmd.item_name.s, cmd.quantity.n,
                                   cmd.price.n).rows,
                       <<"insert">>, "none",
                       [ai_response |-> MessageOr(cmd, "Sale added successfully!"),
                        action |-> "sale_added"])
  ELSE Dispatched(rows, <<>>, "none",
         ChatEnvelope(MessageOr(cmd, "I'm not sure how to respond to that.")))

\* the dispatch on response_data.get("action")
ai_dispatch(cmd, db_up, rows, id, t) ==
  CASE cmd.action = "add_sale" -> add_sale_branch(cmd, db_up, rows, id, t)
    [] cmd.action = "get_summary" ->
         IF ~db_up
         THEN Dispatched(rows, <<>>, "OperationalError", NoBody)
         ELSE Dispatched(rows, <<"fetch">>, "none",
                [ai_response |-> MessageOr(cmd, "Sales Summary"),
                 action |-> "summary",
                 summary |-> compute_summary(fetch_sales(rows))])
    [] cmd.action = "remove_sale" -> remove_sale_branch(cmd, db_up, rows)
    [] cmd.action = "convert_currency" ->
         Dispatched(rows, <<>>, "none",
           [ai_response |-> MessageOr(cmd, "Currency Conversion"),
            action |-> "convert_currency", amount |-> cmd.amount,
            from_currency |-> Null, to_currency |-> Null])
    [] OTHER ->
         Dispatched(rows, <<>>, "none",
           ChatEnvelope(MessageOr(cmd, "I'm not sure how to respond to that.")))

\* `except json.JSONDecodeError`
inner_except ==
  [status |-> 200,
   body |-> ErrorEnvelope(Text("I had trouble processing that request. str(e)", Absent))]

\* an exception no clause catches leaves the handler: the framework's 500
outer_except_missing ==
  [status |-> 500, body |-> [error |-> Text("Internal Server Error", Absent)]]

\* `except Exception`
outer_except ==
  [status |-> 200, body |-> ErrorEnvelope(Text("An error occurred: str(e)", Absent))]

\* the model being unavailable reported as a failure
no_credential_as_error ==
  [status |-> 503, body |-> ErrorEnvelope(Text("Gemini unavailable.", Absent))]

\* the answer when no credential is configured
no_credential_response ==
  [status |-> 200,
   body |-> [ai_response |-> Text("Gemini unavailable. Enter sales manually.", Absent)]]

\* a finished /ai interaction: what the model was asked and said, the table
\* after it, and the response
Answered(model_called, reply, cmd, rows, ops, exc, status, body) ==
  [model_called |-> model_called, reply |-> reply, cmd |-> cmd, rows |-> rows,
   ops |-> ops, exc |-> exc, status |-> status, body |-> body]

\* ai_assistant on one request.  `reply` is what the model call gives: it
\* raises, or its text holds no fenced block, a block that is not JSON, a
\* block whose JSON is not an object, or a block holding the object `cmd`
ai_assistant_response(key, user_text, reply, cmd, db_up, rows, id, t) ==
  IF ~Truthy(user_text)
  THEN Answered(FALSE, "none", NoCmd, rows, <<>>, "none", 400,
                [error |-> Text("No input", Absent)])
  ELSE IF ~key
  THEN Answered(FALSE, "none", NoCmd, rows, <<>>, "none",
                no_credential_response.status, no_credential_response.body)
  ELSE CASE reply = "raises" ->
              Answered(TRUE, reply, NoCmd, rows, <<>>, "ModelError",
                       outer_except.status, outer_except.body)
         [] reply = "no_block" ->
              Answered(TRUE, reply, NoCmd, rows, <<>>, "none", 200,
                       ChatEnvelope(Text("ai_response", Absent)))
         [] reply = "bad_json" ->
              Answered(TRUE, reply, NoCmd, rows, <<>>, "JSONDecodeError",
                       inner_except.status, inner_except.body)
         [] reply = "non_object" ->
              Answered(TRUE, reply, NoCmd, rows, <<>>, "AttributeError",
                       outer_except.status, outer_except.body)
         [] OTHER ->
              LET d == ai_dispatch(cmd, db_up, rows, id, t)
              IN IF d.exc # "none"
                 THEN Answered(TRUE, reply, cmd, rows, d.ops, d.exc,
                               outer_except.status, outer_except.body)
                 ELSE Answered(TRUE, reply, cmd, d.rows, d.ops, "none", 200, d.body)

\* request.json.get("user_text")
UserTexts == {Absent, Str(<<>>), Str(S_hi), Str(S_milk)}

Replies == {"raises", "no_block", "bad_json", "non_object", "object"}

Messages == {Absent, Str(S_hi)}

AddCommands ==
  {[NoCmd EXCEPT !.action = "add_sale", !.item_name = i, !.quantity = q,
                 !.price = pr, !.message = m] :
     i \in {Absent, Null, Str(<<>>)} \cup {Str(x) : x \in ItemNames},
     q \in {Absent, Null, Num(0)} \cup {Num(x) : x \in Quantities},
     pr \in {Absent, Null} \cup {Num(x) : x \in Prices},
     m \in Messages}

SaleIds ==
  {Absent, Null, Str(<<>>), Num(0), Str(S_all), Str(S_ALL)}
  \cup {Str(DigitsOf(i)) : i \in 1 .. MaxId + 1}
  \cup {Num(i) : i \in 1 .. MaxId + 1}

RemoveCommands ==
  {[NoCmd EXCEPT !.action = "remove_sale", !.sale_id = i, !.confirmed = c,
                 !.message = m] :
     i \in SaleIds, c \in {Absent, Bool(FALSE), Bool(TRUE)}, m \in Messages}

OtherCommands ==
  {[NoCmd EXCEPT !.action = a, !.message = m] :
     a \in {"get_summary", "chat", "unrecognized", "absent"}, m \in Messages}
  \cup {[NoCmd EXCEPT !.action = "convert_currency", !.amount = x, !.message = m] :
          x \in {Absent, Num(1)}, m \in Messages}

Commands == AddCommands \cup RemoveCommands \cup OtherCommands

\* what one call of the model gives; none when it is not called
ModelTurns ==
  {[reply |-> r, cmd |-> NoCmd] : r \in Replies \ {"object"}}
  \cup {[reply |-> "object", cmd |-> c] : c \in Commands}

NoTurn == [reply |-> "none", cmd |-> NoCmd]

\* the actions whose branch may reach the datastore
StoreActions == {"add_sale", "get_summary", "remove_sale"}

\* POST /ai
ai_assistant ==
  \E user_text \in UserTexts :
  \E turn \in IF Truthy(user_text) /\ GEMINI_API_KEY THEN ModelTurns ELSE {NoTurn} :
  \E db_up \in IF turn.cmd.action \in StoreActions THEN BOOLEAN ELSE {TRUE} :
    LET r == ai_assistant_response(GEMINI_API_KEY, user_text, turn.reply, turn.cmd,
                                   db_up, sales, nextId, now)
    IN /\ Quiet
       /\ "insert" \in {r.ops[i] : i \in DOMAIN r.ops} => nextId <= MaxId
       /\ sales' = r.rows
       /\ nextId' = IF r.rows \ sales # {} THEN nextId + 1 ELSE nextId
       /\ interfered' = Disturb(0, sales' # sales)
       /\ last' = Outcome("ai_assistant",
                          [NoInput EXCEPT !.user_text = user_text, !.reply = r.reply,
                                          !.cmd = r.cmd],
                          r.model_called, r.ops, r.exc, r.rows \ sales, sales \ r.rows,
                          r.status, r.body)
       /\ UNCHANGED <<GEMINI_API_KEY, now, pc, sale>>

\* a row inserted by an earlier request; `cap` bounds the ids
Populate(cap) ==
  \E i \in ItemNames, q \in Quantities, pr \in Prices :
    LET ins == insert_sale(sales, nextId, now, i, q, pr)
    IN /\ Quiet
       /\ nextId <= cap
       /\ sales' = ins.rows
       /\ nextId' = nextId + 1
       /\ last' = Outcome("insert_sale", NoInput, FALSE, <<"insert">>, "none",
                          {ins.row}, {}, 0, NoBody)
       /\ UNCHANGED <<GEMINI_API_KEY, now, pc, sale, interfered>>

(***************************************************************************)
(* Specifications.                                                         *)
(***************************************************************************)
Init ==
  /\ GEMINI_API_KEY \in BOOLEAN
  /\ sales = {}
  /\ nextId = 1
  /\ now = 45
  /\ pc = [p \in Procs |-> "idle"]
  /\ sale = [p \in Procs |-> NoRow]
  /\ interfered = [p \in Procs |-> FALSE]
  /\ last = Nothing

\* the interpreter and the routes that answer in one step
Next ==
  \/ ai_assistant
  \/ delete_sale_route
  \/ get_sales
  \/ get_analytics
  \/ Populate(MaxId)
  \/ Forget

Spec == Init /\ [][Next]_vars

\* the analytics over a growing ledger
NextSummary ==
  \/ Populate(MaxRows)
  \/ get_analytics
  \/ Tick
  \/ Forget

SpecSummary == Init /\ [][NextSummary]_vars

\* concurrent POST /api/sales and DELETE requests
NextRace ==
  \/ \E p \in Procs : add_sale_insert(p)
  \/ \E p \in Procs : add_sale_fetch(p)
  \/ delete_sale_route
  \/ Forget

SpecRace == Init /\ [][NextRace]_vars

(***************************************************************************)
(* Vocabulary of the properties.                                           *)
(***************************************************************************)
\* the table as the interaction that just ended found it
Before == (sales \ last.inserted) \cup last.removed

Unchanged == last.inserted = {} /\ last.removed = {}

\* /ai got a command object from the model
Dispatching(action) ==
  /\ last.handler = "ai_assistant"
  /\ last.input.reply = "object"
  /\ last.input.cmd.action = action

IsDigits(s) ==
  s # <<>> /\ \A i \in DOMAIN s :
    s[i] \in {"0", "1", "2", "3", "4", "5", "6", "7", "8", "9"}

\* the identifier names the literal "all" in any letter case
NamesAll(v) ==
  /\ v.k = "str"
  /\ Len(v.s) = 3
  /\ v.s[1] \in {"a", "A"}
  /\ v.s[2] \in {"l", "L"}
  /\ v.s[3] \in {"l", "L"}

\* the identifier, a JSON string of digits or a JSON number, is row r's id
Identifies(v, r) ==
  \/ v.k = "num" /\ v.n = r.id
  \/ v.k = "str" /\ IsDigits(v.s) /\ DecimalOf(v.s) = r.id

RECURSIVE TotalQuantity(_)
\* the sum of the quantities of a set of rows
TotalQuantity(rows) ==
  IF rows = {} THEN 0
  ELSE LET r == CHOOSE x \in rows : TRUE
       IN r.quantity + TotalQuantity(rows \ {r})

RECURSIVE TotalOfEntries(_)
TotalOfEntries(items) ==
  IF items = <<>> THEN 0 ELSE Head(items).quantity + TotalOfEntries(Tail(items))

RECURSIVE TotalOfHours(_, _)
TotalOfHours(hourly, h) ==
  IF h < 0 THEN 0 ELSE hourly[h] + TotalOfHours(hourly, h - 1)

\* GET /api/analytics has just answered with a summary
Analysed == last.handler = "get_analytics" /\ last.status = 200

(***************************************************************************)
(* C1.  An unconfirmed remove_sale command never runs the store's          *)
(* delete-all branch: when its identifier is "all" in any letter case, no  *)
(* row is removed and the confirmation request is returned.  (The code     *)
(* gates only the exact string "all"; "ALL" reaches delete_sale, whose     *)
(* lower() selects delete-all.)  Stated for a reachable datastore.         *)
(***************************************************************************)
C1_UnconfirmedNeverDeletesAll ==
  (Dispatching("remove_sale") /\ ~Truthy(last.input.cmd.confirmed)
     /\ last.exc # "OperationalError")
  => /\ \A i \in DOMAIN last.ops : last.ops[i] # "delete_all"
     /\ NamesAll(last.input.cmd.sale_id)
        => /\ Unchanged
           /\ last.body.action = "confirm_delete_all"

(***************************************************************************)
(* C2.  Every /ai response to a non-empty user text carries both           *)
(* ai_response and action.  (The no-credential fallback has no action.)    *)
(***************************************************************************)
C2_UniformEnvelope ==
  (last.handler = "ai_assistant" /\ Truthy(last.input.user_text))
  => {"ai_response", "action"} \subseteq DOMAIN last.body

C4_NoCredentialFallback ==
  last.handler = "ai_assistant"
  => /\ ~Truthy(last.input.user_text)
        => /\ last.status = 400
           /\ last.body = [error |-> Text("No input", Absent)]
           /\ ~last.model_called
           /\ last.ops = <<>>
           /\ Unchanged
     /\ (Truthy(last.input.user_text) /\ ~GEMINI_API_KEY)
        => /\ last.status = 200
           /\ last.body
                = [ai_response |-> Text("Gemini unavailable. Enter sales manually.", Absent)]
           /\ ~last.model_called
           /\ last.ops = <<>>
           /\ Unchanged

C4_Witness ==
  /\ ~GEMINI_API_KEY
  /\ last.handler = "ai_assistant"
  /\ last.input.user_text = Str(S_milk)
  /\ last.status = 200
  /\ Cardinality(sales) = 2

(***************************************************************************)
(* C5.  An add_sale command inserts nothing and gets the chat envelope     *)
(* when a field is unusable, and inserts exactly its one record otherwise. *)
(***************************************************************************)
\* the chat envelope with the model's message, or the generic text
C5_ChatFallback ==
  /\ Unchanged
  /\ last.ops = <<>>
  /\ last.body.action = "chat"
  /\ last.body.ai_response
       = IF last.input.cmd.message = Absent
         THEN Text("I'm not sure how to respond to that.", Absent)
         ELSE Text("message", last.input.cmd.message)

\* exactly the command's record was inserted, nothing else changed
C5_OneInserted ==
  /\ last.removed = {}
  /\ Cardinality(last.inserted) = 1
  /\ \A r \in last.inserted :
       /\ r.item_name = last.input.cmd.item_name.s
       /\ r.quantity = last.input.cmd.quantity.n
       /\ r.price = last.input.cmd.price.n
       /\ r \in sales
       /\ \A x \in Before : x.id # r.id
  /\ last.body.action = "sale_added"

\* C5 as claimed: a field missing or null decides between the chat envelope
\* and the insert (the store being reachable)
C5_Original ==
  (Dispatching("add_sale") /\ last.exc = "none")
  => IF \/ IsNone(last.input.cmd.item_name)
        \/ IsNone(last.input.cmd.quantity)
        \/ IsNone(last.input.cmd.price)
     THEN C5_ChatFallback
     ELSE C5_OneInserted

\* C5 as amended: an empty item_name is unusable too, like a missing or null
\* field; otherwise exactly the one record is inserted, unless the store
\* raises, which inserts nothing and gives the error envelope
C5_AddSale ==
  Dispatching("add_sale")
  => IF \/ IsNone(last.input.cmd.item_name)
        \/ last.input.cmd.item_name = Str(<<>>)
        \/ IsNone(last.input.cmd.quantity)
        \/ IsNone(last.input.cmd.price)
     THEN C5_ChatFallback
     ELSE IF last.exc = "none"
     THEN C5_OneInserted
     ELSE Unchanged /\ last.body.action = "error"

C5_Witness ==
  /\ Dispatching("add_sale")
  /\ last.input.cmd.quantity = Num(0)
  /\ Cardinality(last.inserted) = 1
  /\ Cardinality(sales) = 2

(***************************************************************************)
(* C6.  Deleting by an identifier that is not "all" and is no record's id  *)
(* returns not-found without raising and leaves the table as it was: 404   *)
(* from the DELETE route, action "error" from /ai.  (A JSON number makes   *)
(* delete_sale raise instead.)                                             *)
(***************************************************************************)
\* delete_sale was called with identifier v, the store being reachable
C6_Deleting(v) ==
  /\ last.exc # "OperationalError"
  /\ \/ last.handler = "delete_sale_route" /\ v = last.input.sale_id
     \/ /\ Dispatching("remove_sale")
        /\ v = last.input.cmd.sale_id
        /\ Truthy(v)
        /\ ~(PyEqStr(v, S_all) /\ ~Truthy(last.input.cmd.confirmed))

\* C6: such a delete returns not-found, raises nothing, changes nothing
C6_NotFound ==
  \A v \in RouteIds \cup SaleIds :
    (C6_Deleting(v) /\ ~NamesAll(v) /\ \A r \in Before : ~Identifies(v, r))
    => /\ last.exc = "none"
       /\ Unchanged
       /\ last.handler = "delete_sale_route" => last.status = 404
       /\ last.handler = "ai_assistant" => last.body.action = "error"

(***************************************************************************)
(* C7.  A remove_sale command whose sale_id is not "all" and is the id of  *)
(* an existing record, as a JSON string or as a JSON number, removes       *)
(* exactly that record and answers sale_deleted with it.  (A JSON number   *)
(* makes delete_sale raise: int has no lower().)                           *)
(***************************************************************************)
C7_DeletesThatRecord ==
  \A v \in SaleIds :
    \A r \in Before :
      (C6_Deleting(v) /\ Dispatching("remove_sale") /\ ~NamesAll(v) /\ Identifies(v, r))
      => /\ last.removed = {r}
         /\ last.inserted = {}
         /\ last.body.action = "sale_deleted"
         /\ last.body.result.deleted_sale = r

(***************************************************************************)
(* C8.  On a non-empty ledger items_sold holds, per item, the sum of its   *)
(* quantities, in the order the items first occur in the newest-first      *)
(* input; best_selling_quantity is the largest of them and                 *)
(* best_selling_item an item attaining it: among tied items, the one whose *)
(* newest record has the largest id.                                       *)
(***************************************************************************)
C8_Names == {r.item_name : r \in sales}

C8_Total(name) == TotalQuantity({r \in sales : r.item_name = name})

\* the id of the newest record of an item: its place in the input
C8_Newest(name) ==
  CHOOSE i \in {r.id : r \in sales} :
    /\ \E r \in sales : r.id = i /\ r.item_name = name
    /\ \A r \in sales : r.item_name = name => r.id <= i

\* C8: items_sold sums per item, the best seller is the largest, and ties
\* go to the item met first in the newest-first input
C8_BestSelling ==
  (Analysed /\ sales # {})
  => LET a == last.body.analytics
         items == a.items_sold
         best == a.best_selling_item.s
     IN /\ Len(items) = Cardinality(C8_Names)
        /\ \A i \in DOMAIN items :
             /\ items[i].item_name \in C8_Names
             /\ items[i].quantity = C8_Total(items[i].item_name)
        /\ \A i, j \in DOMAIN items :
             i < j => C8_Newest(items[i].item_name) > C8_Newest(items[j].item_name)
        /\ a.best_selling_item.k = "str"
        /\ best \in C8_Names
        /\ a.best_selling_quantity = C8_Total(best)
        /\ \A n \in C8_Names : C8_Total(n) <= a.best_selling_quantity
        /\ \A n \in C8_Names \ {best} :
             C8_Total(n) = a.best_selling_quantity => C8_Newest(best) > C8_Newest(n)

C8_Witness ==
  /\ Analysed
  /\ Cardinality(sales) >= 3
  /\ C8_Total(S_eggs) = C8_Total(S_milk)
  /\ C8_Total(S_eggs) = 3
  /\ last.body.analytics.best_selling_item = Str(S_milk)

(***************************************************************************)
(* C9.  The summary POST /api/sales returns is computed from the table as  *)
(* it stands at the fetch step, after the insert has been committed: with  *)
(* no other request changing the table in between it counts the new sale,  *)
(* and a concurrent insert or delete in between shows in it.               *)
(***************************************************************************)
C9_SummaryAtFetch ==
  (last.handler = "add_sale" /\ last.status = 201)
  => LET b == last.body
     IN /\ b.summary.total_sales_count = TotalQuantity(sales)
        /\ Len(b.summary.recent_sales)
             = IF Cardinality(sales) < 5 THEN Cardinality(sales) ELSE 5
        /\ b.sale.id > 0
        /\ ~last.input.interfered
           => /\ b.sale \in sales
              /\ b.summary.total_sales_count >= b.sale.quantity
              /\ b.summary.recent_sales[1].item_name = b.sale.item_name
              /\ b.summary.recent_sales[1].quantity = b.sale.quantity

\* a 201 whose summary is the empty one: a delete-all ran between the steps
C9_Witness ==
  /\ last.handler = "add_sale"
  /\ last.status = 201
  /\ last.input.interfered
  /\ last.body.sale \notin sales
  /\ last.body.sale.quantity > 0
  /\ last.body.summary.total_sales_count = 0

(***************************************************************************)
(* C10.  For every ledger, the empty one included, hourly_sales has        *)
(* exactly the keys 0..23, each holding the quantities of the records of   *)
(* that hour; its values, the values of items_sold and total_sales_count   *)
(* all sum to the records' quantities; recent_sales has min(5, n) entries, *)
(* the newest records, newest first.                                       *)
(***************************************************************************)
C10_SummaryTotals ==
  Analysed
  => LET a == last.body.analytics
         n == Cardinality(sales)
         recent == recent_sales(fetch_sales(sales))
         shown == {recent[i] : i \in DOMAIN recent}
     IN /\ DOMAIN a.hourly_sales = 0 .. 23
        /\ \A h \in 0 .. 23 :
             a.hourly_sales[h]
               = TotalQuantity({r \in sales : (r.created_at \div 60) % 24 = h})
        /\ TotalOfHours(a.hourly_sales, 23) = TotalQuantity(sales)
        /\ TotalOfEntries(a.items_sold) = TotalQuantity(sales)
        /\ a.total_sales_count = TotalQuantity(sales)
        /\ Len(a.recent_sales) = IF n < 5 THEN n ELSE 5
        /\ Len(recent) = Len(a.recent_sales)
        /\ Cardinality(shown) = Len(recent)
        /\ shown \subseteq sales
        /\ \A i \in DOMAIN recent :
             /\ a.recent_sales[i].item_name = recent[i].item_name
             /\ a.recent_sales[i].quantity = recent[i].quantity
             /\ a.recent_sales[i].price = recent[i].price
             /\ a.recent_sales[i].total = recent[i].quantity * recent[i].price
        /\ \A i, j \in DOMAIN recent :
             i < j => recent[i].created_at >= recent[j].created_at
        /\ \A r \in sales \ shown :
             \A i \in DOMAIN recent : recent[i].created_at >= r.created_at

C10_Witness ==
  /\ Analysed
  /\ Cardinality(sales) = 6
  /\ last.body.analytics.hourly_sales[0] > 0
  /\ last.body.analytics.hourly_sales[1] > 0
  /\ Len(last.body.analytics.recent_sales) = 5

====
